---- MODULE Spec2Model ----
(***************************************************************************)
(* Model of the gallery backend (src/server.js): the metadata document     *)
(* data/gallery.json, the blob directory public/images/gallery, and the    *)
(* four request handlers (list, list by category, upload, delete).         *)
(*                                                                         *)
(* Node runs each handler body to completion (all file calls are the       *)
(* synchronous ones), so a handler is one atomic action.  The multipart    *)
(* parsing done by multer before the upload handler is asynchronous: it    *)
(* writes the blob first and the handler runs later, so an upload is two   *)
(* actions (UploadReceive, UploadHandle) and other requests may be served  *)
(* in between.                                                             *)
(*                                                                         *)
(* Environment: a read of the document may fail (readFileSync throws) and  *)
(* a write may fail either before the file is opened (document unchanged)  *)
(* or after it was truncated (document left unparsable).  The generated    *)
(* blob name gallery-<Date.now()>-<random><ext> is modelled as a fresh     *)
(* name: collisions of the 1E9-valued random part are not explored.        *)
(* unlinkSync of an existing file is taken to succeed.                     *)
(***************************************************************************)
EXTENDS Integers, Sequences, FiniteSets, TLC

\* ---------------------------------------------------------------- bounds
MaxTime == 1      \* Date.now() ranges over 0..MaxTime (milliseconds)
MaxFiles == 2     \* number of blobs multer writes in one behaviour
MaxPending == 2   \* uploads parsed by multer whose handler has not run yet

\* ---------------------------------------------------------------- inputs
Mimetypes == {"image/jpeg", "text/plain"}
\* the alt and category fields of the multipart body ("" = missing)
Fields == {[alt |-> "a", category |-> "cats"], [alt |-> "a", category |-> "dogs"],
           [alt |-> "", category |-> "cats"], [alt |-> "a", category |-> ""]}
QueryCategories == {"all", "dogs", "Dogs"}
Ids == 0..MaxTime
\* outcome of readFileSync when the handler reaches it: TRUE = read
ReadOutcomes(reached) == IF reached THEN BOOLEAN ELSE {TRUE}
\* outcome of writeFileSync when the handler reaches it: written, failed
\* before the file was opened, or failed after the open truncated it
WriteOutcomes(reached) ==
  IF reached THEN {"ok", "unchanged", "truncated"} ELSE {"ok"}

\* ----------------------------------------------------------------- state
VARIABLES
  doc,          \* content of data/gallery.json: Stringify(records) or Corrupt
  blobs,        \* names of the files in public/images/gallery
  pending,      \* requests multer has parsed, waiting for the upload handler
  now,          \* the clock read by Date.now()
  fileCtr,      \* number of blob names generated so far
  resp,         \* the response sent by the last step (NoResp if none was sent)
  onlyUploads,  \* history: every request so far was a sequential successful upload
  deletedIds    \* history: the ids a successful Delete has removed from the index

vars == <<doc, blobs, pending, now, fileCtr, resp, onlyUploads, deletedIds>>

\* the document as written by JSON.stringify(data, null, 2)
Stringify(data) == [parsable |-> TRUE, images |-> data]

\* a document left truncated by a write that failed: JSON.parse throws on it
Corrupt == [parsable |-> FALSE, images |-> <<>>]
NoFile == [filename |-> 0, mimetype |-> ""]

Resp(op, status, err, data, key, rf) ==
  [op |-> op, status |-> status, err |-> err, data |-> data, key |-> key,
   readFailed |-> rf, fileExisted |-> FALSE]

\* a response of the delete handler once it has found the record; existed
\* is what fs.existsSync(filePath) returned
DeleteResp(status, err, id, existed) ==
  [Resp("delete", status, err, <<>>, id, FALSE) EXCEPT !.fileExisted = existed]

NoResp == Resp("none", 0, "", <<>>, 0, FALSE)

\* the records a successful read of the document yields
Index(d) == IF d.parsable THEN d.images ELSE <<>>

\* ------------------------------------------------------------- helpers
allowedTypes == {"image/jpeg", "image/jpg", "image/png", "image/webp"}

\* fault: the filter accepts every mimetype
fileFilter_acceptAll(mimetype) == TRUE

fileFilter(mimetype) == mimetype \in allowedTypes

\* src: `/images/gallery/${req.file.filename}`
SrcOf(filename) == [dir |-> "/images/gallery", name |-> filename]

\* path.join(__dirname, 'public', src) names the file in uploadsDir
FileOfSrc(src) == src.name

\* fault: load() does not see the document as the previous handler left it
readGalleryData_stale(d, rd) == <<>>

\* rd = FALSE: readFileSync throws; a Corrupt document makes JSON.parse throw
readGalleryData(d, rd) == IF rd /\ d.parsable THEN d.images ELSE <<>>

ReadFailed(d, rd) == ~rd \/ ~d.parsable

writeGalleryData(d, data, wr) ==
  [ok  |-> (wr = "ok"),
   doc |-> CASE wr = "ok" -> Stringify(data)
             [] wr = "unchanged" -> d
             [] OTHER -> Corrupt]

\* fault: the category filter is not applied
Filter_notApplied(images, category) == images

RECURSIVE Filter(_, _)
\* Array.prototype.filter with the predicate img.category === category
Filter(images, category) ==
  IF images = <<>> THEN <<>>
  ELSE LET rest == Filter(Tail(images), category)
       IN IF Head(images).category = category
          THEN <<Head(images)>> \o rest ELSE rest

\* fault: the record is not removed from the saved index
FilterNotId_keepAll(images, id) == images

RECURSIVE FilterNotId(_, _)
\* Array.prototype.filter with the predicate img.id !== id
FilterNotId(images, id) ==
  IF images = <<>> THEN <<>>
  ELSE LET rest == FilterNotId(Tail(images), id)
       IN IF Head(images).id # id
          THEN <<Head(images)>> \o rest ELSE rest

\* Array.prototype.find with img.id === id: index of the first match, 0 if none
Find(images, id) ==
  LET hits == {i \in 1..Len(images) : images[i].id = id}
  IN IF hits = {} THEN 0 ELSE CHOOSE i \in hits : \A j \in hits : i <= j

\* ------------------------------------------------------------- handlers
\* fault: a read failure is propagated to the caller
ListHandler_propagate(d, rd) ==
  IF ReadFailed(d, rd)
  THEN [doc |-> d, resp |-> Resp("list", 500, "ReadFailure", <<>>, 0, TRUE)]
  ELSE [doc |-> d, resp |-> Resp("list", 200, "", d.images, 0, FALSE)]

ListHandler(d, rd) ==
  [doc |-> d,
   resp |-> Resp("list", 200, "", readGalleryData(d, rd), 0, ReadFailed(d, rd))]

CategoryHandler(d, category, rd) ==
  LET images == readGalleryData(d, rd)
      filteredImages == IF category = "all" THEN images
                        ELSE Filter(images, category)
  IN [doc |-> d,
      resp |-> Resp("category", 200, "", filteredImages, category,
                    ReadFailed(d, rd))]

\* fault: the uploaded file is not unlinked when alt or category is missing
UploadHandler_keepBlob(d, b, req, t, rd, wr) ==
  IF req.file = NoFile
  THEN [doc |-> d, blobs |-> b,
        resp |-> Resp("upload", 400, "MissingFile", <<>>, 0, FALSE)]
  ELSE IF req.alt = "" \/ req.category = ""
  THEN [doc |-> d, blobs |-> b,
        resp |-> Resp("upload", 400, "MissingFields", <<>>,
                      req.file.filename, FALSE)]
  ELSE LET newImage == [id |-> t, src |-> SrcOf(req.file.filename),
                        alt |-> req.alt, category |-> req.category,
                        createdAt |-> t]
           images == <<newImage>> \o readGalleryData(d, rd)
           w == writeGalleryData(d, images, wr)
       IN IF ~w.ok
          THEN [doc |-> w.doc, blobs |-> b \ {req.file.filename},
                resp |-> Resp("upload", 500, "PersistFailure", <<>>,
                              req.file.filename, ReadFailed(d, rd))]
          ELSE [doc |-> w.doc, blobs |-> b,
                resp |-> Resp("upload", 201, "", <<newImage>>,
                              req.file.filename, ReadFailed(d, rd))]

UploadHandler(d, b, req, t, rd, wr) ==
  IF req.file = NoFile
  THEN [doc |-> d, blobs |-> b,
        resp |-> Resp("upload", 400, "MissingFile", <<>>, 0, FALSE)]
  ELSE IF req.alt = "" \/ req.category = ""
  THEN [doc |-> d, blobs |-> b \ {req.file.filename},
        resp |-> Resp("upload", 400, "MissingFields", <<>>,
                      req.file.filename, FALSE)]
  ELSE LET newImage == [id |-> t, src |-> SrcOf(req.file.filename),
                        alt |-> req.alt, category |-> req.category,
                        createdAt |-> t]
           images == <<newImage>> \o readGalleryData(d, rd)
           w == writeGalleryData(d, images, wr)
       IN IF ~w.ok
          THEN [doc |-> w.doc, blobs |-> b \ {req.file.filename},
                resp |-> Resp("upload", 500, "PersistFailure", <<>>,
                              req.file.filename, ReadFailed(d, rd))]
          ELSE [doc |-> w.doc, blobs |-> b,
                resp |-> Resp("upload", 201, "", <<newImage>>,
                              req.file.filename, ReadFailed(d, rd))]

\* fault: the file is unlinked without the existsSync guard, so a missing
\* file makes unlinkSync throw and the catch block answers 500
DeleteHandler_missingIsError(d, b, id, rd, wr) ==
  LET images == readGalleryData(d, rd)
      k == Find(images, id)
  IN IF k = 0
     THEN [doc |-> d, blobs |-> b,
           resp |-> Resp("delete", 404, "NotFound", <<>>, id, ReadFailed(d, rd))]
     ELSE LET filePath == FileOfSrc(images[k].src)
              existed == filePath \in b
              b2 == b \ {filePath}
              updatedImages == FilterNotId(images, id)
              w == writeGalleryData(d, updatedImages, wr)
          IN IF ~existed
             THEN [doc |-> d, blobs |-> b,
                   resp |-> DeleteResp(500, "DeleteFailed", id, existed)]
             ELSE IF ~w.ok
             THEN [doc |-> w.doc, blobs |-> b2,
                   resp |-> DeleteResp(500, "PersistFailure", id, existed)]
             ELSE [doc |-> w.doc, blobs |-> b2,
                   resp |-> DeleteResp(200, "", id, existed)]

DeleteHandler(d, b, id, rd, wr) ==
  LET images == readGalleryData(d, rd)
      k == Find(images, id)
  IN IF k = 0
     THEN [doc |-> d, blobs |-> b,
           resp |-> Resp("delete", 404, "NotFound", <<>>, id, ReadFailed(d, rd))]
     ELSE LET filePath == FileOfSrc(images[k].src)
              existed == filePath \in b
              b2 == IF existed THEN b \ {filePath} ELSE b
              updatedImages == FilterNotId(images, id)
              w == writeGalleryData(d, updatedImages, wr)
          IN IF ~w.ok
             THEN [doc |-> w.doc, blobs |-> b2,
                   resp |-> DeleteResp(500, "PersistFailure", id, existed)]
             ELSE [doc |-> w.doc, blobs |-> b2,
                   resp |-> DeleteResp(200, "", id, existed)]

\* the upload handler reaches readGalleryData and writeGalleryData
UploadReads(req) == req.file # NoFile /\ req.alt # "" /\ req.category # ""

\* the delete handler reaches writeGalleryData
DeleteWrites(d, id, rd) == Find(readGalleryData(d, rd), id) # 0

\* -------------------------------------------------------------- actions
Init ==
  /\ doc = Stringify(<<>>)
  /\ blobs = {}
  /\ pending = {}
  /\ now = 0
  /\ fileCtr = 0
  /\ resp = NoResp
  /\ onlyUploads = TRUE
  /\ deletedIds = {}

\* the clock advances
Tick ==
  /\ now < MaxTime
  /\ now' = now + 1
  /\ resp' = NoResp
  /\ UNCHANGED <<doc, blobs, pending, fileCtr, onlyUploads, deletedIds>>

\* multer: upload.single('image') on a request that carries a file
UploadReceive ==
  \E mimetype \in Mimetypes :
    IF fileFilter(mimetype)
    THEN /\ fileCtr < MaxFiles
         /\ Cardinality(pending) < MaxPending
         /\ fileCtr' = fileCtr + 1
         /\ blobs' = blobs \cup {fileCtr + 1}
         /\ \E body \in Fields :
              pending' = pending \cup
                {[file |-> [filename |-> fileCtr + 1, mimetype |-> mimetype],
                  alt |-> body.alt, category |-> body.category]}
         /\ resp' = NoResp
         /\ onlyUploads' = (onlyUploads /\ pending = {})
         /\ UNCHANGED <<doc, now, deletedIds>>
    ELSE /\ resp' = Resp("upload", 500, "InvalidFileType", <<>>, mimetype, FALSE)
         /\ onlyUploads' = FALSE
         /\ UNCHANGED <<doc, blobs, pending, now, fileCtr, deletedIds>>

\* the upload handler on a request multer has finished parsing
UploadHandle ==
  \E req \in pending :
  \E rd \in ReadOutcomes(UploadReads(req)) :
  \E wr \in WriteOutcomes(UploadReads(req)) :
    LET out == UploadHandler(doc, blobs, req, now, rd, wr)
    IN /\ doc' = out.doc
       /\ blobs' = out.blobs
       /\ resp' = out.resp
       /\ pending' = pending \ {req}
       /\ onlyUploads' = (onlyUploads /\ out.resp.status = 201)
       /\ UNCHANGED <<now, fileCtr, deletedIds>>

\* the upload handler on a request without a file part
UploadWithoutFile ==
  \E body \in Fields :
    LET req == [file |-> NoFile, alt |-> body.alt, category |-> body.category]
        out == UploadHandler(doc, blobs, req, now, TRUE, "ok")
    IN /\ doc' = out.doc
       /\ blobs' = out.blobs
       /\ resp' = out.resp
       /\ onlyUploads' = FALSE
       /\ UNCHANGED <<pending, now, fileCtr, deletedIds>>

Delete ==
  \E id \in Ids, rd \in BOOLEAN :
  \E wr \in WriteOutcomes(DeleteWrites(doc, id, rd)) :
    LET out == DeleteHandler(doc, blobs, id, rd, wr)
    IN /\ doc' = out.doc
       /\ blobs' = out.blobs
       /\ resp' = out.resp
       /\ onlyUploads' = FALSE
       /\ deletedIds' = IF out.resp.status = 200
                        THEN deletedIds \cup {id} ELSE deletedIds
       /\ UNCHANGED <<pending, now, fileCtr>>

List ==
  \E rd \in BOOLEAN :
    LET out == ListHandler(doc, rd)
    IN /\ doc' = out.doc
       /\ resp' = out.resp
       /\ UNCHANGED <<blobs, pending, now, fileCtr, onlyUploads, deletedIds>>

ListByCategory ==
  \E category \in QueryCategories, rd \in BOOLEAN :
    LET out == CategoryHandler(doc, category, rd)
    IN /\ doc' = out.doc
       /\ resp' = out.resp
       /\ UNCHANGED <<blobs, pending, now, fileCtr, onlyUploads, deletedIds>>

Next ==
  \/ Tick
  \/ UploadReceive
  \/ UploadHandle
  \/ UploadWithoutFile
  \/ Delete
  \/ List
  \/ ListByCategory

Spec == Init /\ [][Next]_vars

\* ------------------------------------------------------------ properties
PendingFiles == {q.file.filename : q \in pending}

HasId(images, id) == \E i \in 1..Len(images) : images[i].id = id

\* the subsequence of images whose category is c, in the original order
SubseqOfCategory(images, c) ==
  LET Test(r) == r.category = c IN SelectSeq(images, Test)

\* C1: every blob file whose upload has completed is the src of some record
\* of the index.
NoOrphanBlob ==
  \A f \in blobs \ PendingFiles :
    \E i \in 1..Len(Index(doc)) : FileOfSrc(Index(doc)[i].src) = f

\* C2: no two records of the index have the same id.
UniqueIds ==
  \A i, j \in 1..Len(Index(doc)) :
    i # j => Index(doc)[i].id # Index(doc)[j].id

\* C3: after a successful Upload, List() returns the created record first,
\* followed by the records that were in the index before, in the same order.
UploadPrepends ==
  [][(resp'.op = "upload" /\ resp'.status = 201)
       => ListHandler(doc', TRUE).resp.data = resp'.data \o Index(doc)]_vars

\* C4: a successful Delete(id) removes the blob and the record of id: no
\* record with that id is listed, no blob of a record with that id is left,
\* and a second Delete(id) fails with NotFound.
DeleteRemovesBlobAndRecord ==
  [][(resp'.op = "delete" /\ resp'.status = 200)
       => /\ ~HasId(ListHandler(doc', TRUE).resp.data, resp'.key)
          /\ \A i \in 1..Len(Index(doc)) :
               Index(doc)[i].id = resp'.key
                 => FileOfSrc(Index(doc)[i].src) \notin blobs'
          /\ \A rd \in BOOLEAN, wr \in WriteOutcomes(TRUE) :
               DeleteHandler(doc', blobs', resp'.key, rd, wr).resp.err
                 = "NotFound"]_vars

\* C5: when the requests so far were N sequential successful uploads, List()
\* returns all N records, the record of a later upload before the record of
\* an earlier one (the k-th upload stored the blob named k).
SequentialUploadsOrdered ==
  (onlyUploads /\ pending = {})
    => LET images == ListHandler(doc, TRUE).resp.data
       IN /\ Len(images) = fileCtr
          /\ \A i \in 1..Len(images) :
               FileOfSrc(images[i].src) = fileCtr - i + 1

\* C6: the upload handler, run on a request with a file and an empty alt or
\* category, answers MissingFields, adds no blob, removes the blob multer
\* wrote for the request, and leaves the index as it was.
MissingFieldsLeavesNothing ==
  [][\A q \in pending :
       (q \notin pending' /\ (q.alt = "" \/ q.category = ""))
         => /\ resp'.op = "upload"
            /\ resp'.status = 400
            /\ resp'.err = "MissingFields"
            /\ blobs' \subseteq blobs
            /\ q.file.filename \notin blobs'
            /\ doc' = doc]_vars

MissingFieldsHappened ==
  /\ resp.op = "upload"
  /\ resp.err = "MissingFields"
  /\ Len(Index(doc)) > 0
  /\ blobs # {}

\* C7: an Upload whose save() fails answers PersistFailure, the blob it
\* wrote is gone, and the persisted index is what it was before.
SaveFailureKeepsIndex ==
  [][(resp'.op = "upload" /\ resp'.err = "PersistFailure")
       => /\ resp'.status = 500
          /\ resp'.key \notin blobs'
          /\ Index(doc') = Index(doc)]_vars

\* C8 (as stated): ListByCategory(c) returns the subsequence of the index
\* with category c, and the whole index for c = "all".
CategoryReturnsIndexSubsequence ==
  resp.op = "category"
    => resp.data = IF resp.key = "all" THEN Index(doc)
                   ELSE SubseqOfCategory(Index(doc), resp.key)

\* C8 (amended): ListByCategory(c) returns the subsequence with category c
\* of what load() returns, which is the index when the document was read
\* and the empty sequence when the read failed; for c = "all" it returns
\* what List() returns under the same read outcome.
CategoryReturnsLoadedSubsequence ==
  /\ resp.op = "category"
       => resp.data = IF resp.readFailed THEN <<>>
                      ELSE IF resp.key = "all" THEN doc.images
                      ELSE SubseqOfCategory(doc.images, resp.key)
  /\ \A rd \in BOOLEAN :
       CategoryHandler(doc, "all", rd).resp.data = ListHandler(doc, rd).resp.data

CategoryFiltered ==
  /\ resp.op = "category"
  /\ resp.key = "dogs"
  /\ ~resp.readFailed
  /\ Len(resp.data) = 1
  /\ Len(Index(doc)) = 2

\* C9: a request whose mimetype is not allowed is answered InvalidFileType
\* and writes nothing: blobs, index and pending requests are unchanged, and
\* every file multer stores has an allowed mimetype.
InvalidTypeWritesNothing ==
  [][/\ resp'.err = "InvalidFileType"
          => /\ resp'.key \notin
                  {"image/jpeg", "image/jpg", "image/png", "image/webp"}
             /\ blobs' = blobs
             /\ doc' = doc
             /\ pending' = pending
             /\ fileCtr' = fileCtr
     /\ \A q \in pending' :
          q.file.mimetype \in
            {"image/jpeg", "image/jpg", "image/png", "image/webp"}]_vars

InvalidTypeRejected ==
  /\ resp.op = "upload"
  /\ resp.err = "InvalidFileType"
  /\ resp.key = "text/plain"
  /\ blobs # {}

\* C10: List() always reports success; when the document cannot be read or
\* parsed the result is empty; the document and the blobs are unchanged.
ListNeverFails ==
  [][resp'.op = "list"
       => /\ resp'.status = 200
          /\ resp'.err = ""
          /\ (resp'.readFailed \/ ~doc.parsable) => resp'.data = <<>>
          /\ doc' = doc
          /\ blobs' = blobs]_vars

ListAfterReadFailure ==
  /\ resp.op = "list"
  /\ resp.readFailed
  /\ resp.status = 200
  /\ doc.parsable
  /\ Len(doc.images) > 0

\* the records of images whose id is not id, in the original order
WithoutId(images, id) ==
  LET Test(r) == r.id # id IN SelectSeq(images, Test)

\* two uploads were in flight together (request 1 was parsed first, request 2
\* was parsed and handled before the handler of request 1 ran) and both
\* answered 201: neither blob was removed
OverlappedUploadsSucceeded ==
  /\ resp.op = "upload"
  /\ resp.status = 201
  /\ resp.key = 1
  /\ pending = {}
  /\ blobs = {1, 2}

RecordsOfId(images, id) == {images[i] : i \in {j \in 1..Len(images) : images[j].id = id}}

\* C12: an id removed from the index by a successful Delete is never present
\* again, and while an id is present the record it names keeps its src, alt,
\* category and createdAt.
DeletedIsTerminal ==
  /\ [](\A id \in deletedIds : ~HasId(Index(doc), id))
  /\ [][\A id \in Ids :
          (HasId(Index(doc), id) /\ HasId(Index(doc'), id))
            => RecordsOfId(Index(doc'), id) = RecordsOfId(Index(doc), id)]_vars

\* C13: a Delete of an existing id whose save() fails answers PersistFailure
\* and rolls nothing back: the blob of the record is gone and the record is
\* still in the persisted index, which is what it was before.
DeleteSaveFailureKeepsRecord ==
  [][(resp'.op = "delete" /\ resp'.err = "PersistFailure")
       => /\ resp'.status = 500
          /\ LET k == Find(Index(doc), resp'.key)
             IN /\ k > 0
                /\ FileOfSrc(Index(doc)[k].src) \notin blobs'
          /\ HasId(Index(doc'), resp'.key)
          /\ Index(doc') = Index(doc)]_vars

\* C14: a Delete of an id whose record is in the index and whose blob is
\* missing from disk is not failed by the missing file: with the read and
\* the write succeeding it answers success and the record is removed; the
\* only other answers are those of a failed read (NotFound) or a failed
\* write (PersistFailure); the blob store is not touched.
MissingBlobIsNotAnError ==
  [][LET k == Find(Index(doc), resp'.key)
     IN (resp'.op = "delete" /\ k > 0
           /\ FileOfSrc(Index(doc)[k].src) \notin blobs)
          => /\ blobs' = blobs
             /\ \/ resp'.status = 200 /\ ~HasId(Index(doc'), resp'.key)
                \/ resp'.err = "NotFound" /\ resp'.readFailed
                \/ resp'.err = "PersistFailure"
             /\ LET out == DeleteHandler(doc, blobs, resp'.key, TRUE, "ok")
                IN /\ out.resp.status = 200
                   /\ ~HasId(Index(out.doc), resp'.key)]_vars

MissingBlobDeleted ==
  /\ resp.op = "delete"
  /\ resp.status = 200
  /\ ~resp.fileExisted
  /\ ~HasId(Index(doc), resp.key)

\* C15: a Delete(id) leaves every record of another id in the index, in the
\* same relative order, with its blob on disk if it was there; a Delete
\* answered NotFound changes neither the index nor the blob store.
DeleteTouchesOnlyTarget ==
  [][resp'.op = "delete"
       => /\ WithoutId(Index(doc'), resp'.key) = WithoutId(Index(doc), resp'.key)
          /\ \A i \in 1..Len(Index(doc)) :
               (Index(doc)[i].id # resp'.key
                  /\ FileOfSrc(Index(doc)[i].src) \in blobs)
                 => FileOfSrc(Index(doc)[i].src) \in blobs'
          /\ resp'.err = "NotFound" => (doc' = doc /\ blobs' = blobs)]_vars

\* every record of the index has its blob on disk
NoDangling ==
  \A i \in 1..Len(Index(doc)) : FileOfSrc(Index(doc)[i].src) \in blobs

\* C16: no record is dangling as long as no save() fails: none is at the
\* start, and no Upload or Delete step other than one answered PersistFailure
\* (nor any other step) leaves a record without its blob when there was none
\* before.
NoDanglingWhileSavesSucceed ==
  /\ NoDangling
  /\ [][(NoDangling /\ resp'.err # "PersistFailure") => NoDangling']_vars

RecordAndBlobTogether ==
  /\ resp.op = "delete"
  /\ resp.status = 200
  /\ resp.fileExisted
  /\ Len(Index(doc)) = 1
  /\ blobs = {FileOfSrc(Index(doc)[1].src)}

====
